---- MODULE Spec2Model ----
(***************************************************************************)
(* Model of the user-service of the Health Tracker project: registration   *)
(* and login (AuthServiceImpl), the token codec (utils/jwt), the session   *)
(* gate (AuthMiddleware) and the user directory (postgresUserRepository).  *)
(*                                                                         *)
(* One HTTP request is one worker.  A handler is cut into steps exactly at *)
(* its directory statements: each SQL statement is atomic, everything a    *)
(* handler does between two statements is local to the request.            *)
(*                                                                         *)
(* Spec:         concurrent registrations on an empty directory.           *)
(* SpecCodec:    GenerateJWT and ParseJWT on their own.                    *)
(* SpecLogin:    concurrent logins on a directory of two identities.       *)
(* SpecGate:     every route, request after request, while the clock runs  *)
(*               over a token's lifetime.                                  *)
(* SpecSessions: two sessions at a time on /protected and /logout.         *)
(* SpecAuth:     concurrent registrations and logins, with faults.         *)
(* SpecDirectory: two requests at a time on /register, /login and the      *)
(*               /users routes.                                            *)
(* SpecStartup:  main, from the environment to the first requests.         *)
(***************************************************************************)
EXTENDS Integers, Sequences, FiniteSets, TLC

VARIABLES
    users,      \* the rows of table users
    nextID,     \* number of uuids drawn so far (uuid.New is fresh)
    now,        \* the wall clock, in ticks
    pc,         \* per request: where its handler stands
    req,        \* per request: the decoded request
    ctx,        \* per request: the value under UserContextKey
    resp,       \* per request: the response written
    issued,     \* the tokens clients hold: the token GenerateJWT returned, when, for how long
    probe,      \* the last direct call of ParseJWT: the token, when, the result
    log,        \* per request: what the handler saw (history, read by the properties only)
    proc        \* the process: its environment and how far main has come

vars == <<users, nextID, now, pc, req, ctx, resp, issued, probe, log, proc>>

\* The process is in http.ListenAndServe: its handlers run; none of them
\* touches the process.
Listening == proc.phase = "serving" /\ proc' = proc

\* An environment main reaches ListenAndServe with, and the process there.
DevEnv == [APP_ENV |-> "", DATABASE_URL |-> "postgres://db", JWT_SECRET |-> ""]

Serving == [phase |-> "serving", env |-> DevEnv]

(***************************************************************************)
(* Bounds of the model.                                                    *)
(***************************************************************************)
Workers == {"w1", "w2"}

MaxUsers == 2        \* uuids drawn in a run

TicksPerSec == 2     \* clock resolution: ticks in one second

MaxStart == 3        \* codec runs: the latest tick at which the token is issued

MaxTTL == 5          \* codec runs: the longest lifetime asked for, in ticks

Names == {"", "Ann", "Bob"}

Emails == {"", "ann@x.com", "ANN@x.com"}

Passwords == {"", "Secret123", "hunter2"}

\* The lower-case form of an email (used to tell case variants apart).
Lower(e) == IF e = "ANN@x.com" THEN "ann@x.com" ELSE e

(***************************************************************************)
(* models.User, models.UserResponse                                        *)
(***************************************************************************)
\* bcrypt.GenerateFromPassword: a salted one-way form of the password.  The salt
\* is 128 random bits: no two calls draw the same one.
\* A password of exactly 72 bytes, and that password with one more byte.
FullPassword == "a password of 72 bytes"

LongPassword == "a password of 72 bytes and one more"

\* The key bcrypt derives from a password: Blowfish's key schedule reads 72
\* bytes of it and no more.
BcryptKey(password) == IF password = LongPassword THEN FullPassword ELSE password

Bcrypt(password, salt) == [alg |-> "bcrypt", pw |-> BcryptKey(password), salt |-> salt]

\* bcrypt.GenerateFromPassword refuses a password of more than 72 bytes: the
\* error NewUser returns (<<>>: none).
NewUserErr(password) ==
    IF password = LongPassword THEN <<"bcrypt: password length exceeds 72 bytes">>
    ELSE <<>>

\* NewUser: a fresh id, the given name and email, the hashed password.  n numbers
\* the call: it stands for the randomness the call draws (its uuid, its salt).
NewUser(n, name, email, password) ==
    [id |-> n, name |-> name, email |-> email,
     password_hash |-> Bcrypt(password, n), created_at |-> now]

\* Mutant: every password verifies.
CheckPassword_Any(u, password) == TRUE

\* User.CheckPassword: bcrypt.CompareHashAndPassword succeeds; it hashes the
\* password offered with the salt of the hash, whatever its length.
CheckPassword(u, password) == u.password_hash.pw = BcryptKey(password)

\* Mutant: the DTO carries the hash along.
ToUserResponse_WithHash(u) ==
    [id |-> u.id, name |-> u.name, email |-> u.email, created_at |-> u.created_at,
     password_hash |-> u.password_hash]

\* User.ToUserResponse: the DTO sent outward.
ToUserResponse(u) ==
    [id |-> u.id, name |-> u.name, email |-> u.email, created_at |-> u.created_at]

(***************************************************************************)
(* postgresUserRepository                                                  *)
(***************************************************************************)
\* Mutant: the lookup compares emails without regard to case.
GetUserByEmail_AnyCase(tbl, email) == {u \in tbl : Lower(u.email) = Lower(email)}

\* SELECT ... FROM users WHERE email = $1 : the rows found (none or one).
GetUserByEmail(tbl, email) == {u \in tbl : u.email = email}

\* SELECT ... FROM users WHERE id = $1
GetUserByID(tbl, id) == {u \in tbl : u.id = id}

\* Mutant: the table lacks the UNIQUE constraint on email.
UniqueViolation_IdOnly(tbl, u) == \E v \in tbl : v.id = u.id

\* The constraints of table users (Migrate): id PRIMARY KEY, email UNIQUE.
UniqueViolation(tbl, u) ==
    \E v \in tbl : v.id = u.id \/ v.email = u.email

\* The error chain of a failed statement, outermost message first.
PqDuplicate == "pq: duplicate key value violates unique constraint"

PqFault == "pq: connection failure"

\* INSERT INTO users: the error returned (<<>> is nil).
CreateUserErr(tbl, u, fault) ==
    IF fault THEN <<"repository: failed to create user", PqFault>>
    ELSE IF UniqueViolation(tbl, u)
         THEN <<"repository: failed to create user", PqDuplicate>>
         ELSE <<>>

\* Mutant: the row is stored although the statement failed.
CreateUserRows_Always(tbl, u, fault) == tbl \cup {u}

\* INSERT INTO users: the table afterwards.
CreateUserRows(tbl, u, fault) ==
    IF CreateUserErr(tbl, u, fault) = <<>> THEN tbl \cup {u} ELSE tbl

(***************************************************************************)
(* utils/jwt: the token codec                                              *)
(***************************************************************************)
\* The process-wide signing key.
jwtSecret == "your-super-secret-jwt-key"

\* Algorithms a token header may assert.
Algs == {"HS256", "HS384", "RS256", "none"}

\* token.Method.(*jwt.SigningMethodHMAC): the HS256, HS384 and HS512 methods.
IsHMAC(alg) == alg \in {"HS256", "HS384", "HS512"}

\* jwt.NewNumericDate: a time (in ticks) truncated to whole seconds.
NumericDate(t) == t \div TicksPerSec

\* The instant (in ticks) a NumericDate stands for.
DateTicks(d) == d * TicksPerSec

NoClaims == [user_id |-> 0, username |-> "", exp |-> 0, iat |-> 0, nbf |-> 0]

NoSig == [alg |-> "", key |-> "", claims |-> NoClaims]

\* SigningMethod.Sign: the signature of header and payload under a key.
Sign(alg, key, claims) == [alg |-> alg, key |-> key, claims |-> claims]

\* A token string: header.payload.signature.  pad holds the bits of the last
\* character of the signature segment that carry no signature bit (the encoder
\* writes 0).
Jws(alg, claims, sig, pad) ==
    [form |-> "jws", alg |-> alg, claims |-> claims, sig |-> sig, pad |-> pad]

\* A string that is not three dot-separated segments.
Garbage == [form |-> "garbage", alg |-> "", claims |-> NoClaims, sig |-> NoSig, pad |-> 0]

\* GenerateJWT.  t1, t2, t3 are its three readings of time.Now, in that order.
GenerateJWT(userID, username, expiration, t1, t2, t3) ==
    LET claims == [user_id  |-> userID,
                   username |-> username,
                   exp      |-> NumericDate(t1 + expiration),
                   iat      |-> NumericDate(t2),
                   nbf      |-> NumericDate(t3)]
    IN  Jws("HS256", claims, Sign("HS256", jwtSecret, claims), 0)

\* Mutant: the key function hands the key out whatever the method.
KeyFuncErr_NoCheck(tok) == {}

\* The key function ParseJWT passes: an error unless the method is an HMAC one.
KeyFuncErr(tok) == IF IsHMAC(tok.alg) THEN {} ELSE {"ErrTokenUnverifiable"}

\* Parser.DecodeSegment on the signature segment (no WithStrictDecoding): the
\* bytes decoded; the padding bits of the last character are dropped.
DecodeSignature(tok) == tok.sig

\* Mutant: the signature is not verified.
VerifySignature_Skip(tok, key) == TRUE

\* Method.Verify: an HMAC method recomputes the signature under the key; the
\* none method and the asymmetric ones refuse a []byte key.
VerifySignature(tok, key) ==
    IsHMAC(tok.alg) /\ DecodeSignature(tok) = Sign(tok.alg, key, tok.claims)

\* Mutant: a token is still good at the very instant it expires.
VerifyExpiresAt_Inclusive(claims, t) == t <= DateTicks(claims.exp)

\* Validator.verifyExpiresAt: now is before exp.
VerifyExpiresAt(claims, t) == t < DateTicks(claims.exp)

\* Validator.verifyNotBefore: now is not before nbf.
VerifyNotBefore(claims, t) == t >= DateTicks(claims.nbf)

\* Validator.Validate: the errors of the registered claims (all are collected).
ValidateClaims(claims, t) ==
    LET errs == (IF VerifyExpiresAt(claims, t) THEN {} ELSE {"ErrTokenExpired"})
                \cup (IF VerifyNotBefore(claims, t) THEN {} ELSE {"ErrTokenNotValidYet"})
    IN  IF errs = {} THEN {} ELSE errs \cup {"ErrTokenInvalidClaims"}

\* Mutant: the claims are read without a look at the signature.
ParseJWT_Unverified(tok, t) ==
    LET errs ==
          IF tok.form # "jws" THEN {"ErrTokenMalformed"}
          ELSE ValidateClaims(tok.claims, t)
    IN  [errs |-> errs, claims |-> IF errs = {} THEN {tok.claims} ELSE {}]

\* ParseJWT at time t: the errors it returns wrapped ({}: nil) and the claims.
ParseJWT(tok, t) ==
    LET errs ==
          IF tok.form # "jws" THEN {"ErrTokenMalformed"}
          ELSE IF KeyFuncErr(tok) # {} THEN KeyFuncErr(tok)
          ELSE IF ~VerifySignature(tok, jwtSecret) THEN {"ErrTokenSignatureInvalid"}
          ELSE ValidateClaims(tok.claims, t)
    IN  [errs |-> errs, claims |-> IF errs = {} THEN {tok.claims} ELSE {}]

\* The two error kinds of the codec's contract.
TokenInvalid(errs) ==
    errs \cap {"ErrTokenMalformed", "ErrTokenUnverifiable", "ErrTokenSignatureInvalid"} # {}

TokenExpired(errs) == "ErrTokenExpired" \in errs

NoProbe == [tok |-> Garbage, at |-> 0, res |-> [errs |-> {"none"}, claims |-> {}]]

(***************************************************************************)
(* Responses                                                               *)
(***************************************************************************)
NoBody == [text |-> "", user |-> {}, token |-> {}, expires_in_sec |-> 0, subject |-> {}]

NoResp == [status |-> 0, body |-> NoBody, cookie |-> {}]

\* http.Error(w, text, status)
HttpError(text, status) ==
    [status |-> status, body |-> [NoBody EXCEPT !.text = text], cookie |-> {}]

\* cookie: the value of the jwt_token cookie the request carries ({}: none);
\* id: the {id} of its path.
NoReq == [op |-> "", malformed |-> FALSE, name |-> "", email |-> "", password |-> "",
          cookie |-> {}, id |-> 0]

\* held: the directory held the request's email when the call began; found: what
\* the call's own lookup returned; fault: a directory statement of the call failed
\* for a reason of the database's own; rejected: its insert broke a constraint;
\* wrote: rows the call inserted; at: when the request reached the session gate
\* (a login: when it was served);
\* subject: the rows the directory then held under the id its token names;
\* ran: the wrapped handler was invoked.
NoLog == [held |-> FALSE, found |-> {}, fault |-> FALSE, rejected |-> FALSE, wrote |-> 0,
          at |-> 0, subject |-> {}, ran |-> FALSE]

(***************************************************************************)
(* AuthServiceImpl.RegisterUser and AuthHandlers.Register                  *)
(***************************************************************************)
\* Mutant: the 500 of Register carries the innermost error.
RegisterError_Leaky(err) ==
    IF err = <<"service: user with this email already exists">>
    THEN HttpError(err[1], 409)
    ELSE IF err = <<"service: name, email, and password are required">>
         THEN HttpError(err[1], 400)
         ELSE HttpError(err[Len(err)], 500)

\* The status and body Register writes for a service error.
RegisterError(err) ==
    IF err = <<"service: user with this email already exists">>
    THEN HttpError(err[1], 409)
    ELSE IF err = <<"service: name, email, and password are required">>
         THEN HttpError(err[1], 400)
         ELSE HttpError("Failed to register user", 500)

\* Mutant: RegisterUser looks the email up before it validates the request.
RegisterCheckErr_LookupFirst(r, found, fault) ==
    IF fault
    THEN <<"service: failed to check for existing user by email",
           "repository: failed to get user by email", PqFault>>
    ELSE IF found # {}
         THEN <<"service: user with this email already exists">>
         ELSE IF r.name = "" \/ r.email = "" \/ r.password = ""
              THEN <<"service: name, email, and password are required">>
              ELSE <<>>

\* RegisterUser up to and including its GetUserByEmail pre-check: the error it
\* returns there (<<>>: it goes on to the insert).
RegisterCheckErr(r, found, fault) ==
    IF r.name = "" \/ r.email = "" \/ r.password = ""
    THEN <<"service: name, email, and password are required">>
    ELSE IF fault
         THEN <<"service: failed to check for existing user by email",
                "repository: failed to get user by email", PqFault>>
         ELSE IF found # {}
              THEN <<"service: user with this email already exists">>
              ELSE <<>>

\* RegisterUser from its insert on: the error it returns.
RegisterSaveErr(tbl, u, fault) ==
    IF CreateUserErr(tbl, u, fault) = <<>> THEN <<>>
    ELSE <<"service: failed to save new user">> \o CreateUserErr(tbl, u, fault)

\* RegisterUser and CreateUser: the error when NewUser fails.
RegisterModelErr(r) ==
    IF NewUserErr(r.password) = <<>> THEN <<>>
    ELSE <<"service: failed to create new user model">> \o NewUserErr(r.password)

\* POST /register, first step: decode, validate, look the email up.
RegisterLookup(w, body, fault) ==
    /\ Listening
    /\ pc[w] = "idle"
    /\ req' = [req EXCEPT ![w] = [body EXCEPT !.op = "register"]]
    /\ LET valid == body.name # "" /\ body.email # "" /\ body.password # ""
           found == IF valid /\ ~fault THEN GetUserByEmail(users, body.email) ELSE {}
           err   == RegisterCheckErr(body, found, fault)
       IN  /\ log' = [log EXCEPT ![w] =
                        [NoLog EXCEPT !.held = (\E u \in users : u.email = body.email),
                                      !.found = found,
                                      !.fault = valid /\ fault]]
           /\ IF body.malformed
              THEN /\ resp' = [resp EXCEPT ![w] = HttpError("Invalid request payload", 400)]
                   /\ pc' = [pc EXCEPT ![w] = "done"]
              ELSE IF err # <<>>
                   THEN /\ resp' = [resp EXCEPT ![w] = RegisterError(err)]
                        /\ pc' = [pc EXCEPT ![w] = "done"]
                   ELSE /\ resp' = resp
                        /\ pc' = [pc EXCEPT ![w] = "reg_insert"]
    /\ UNCHANGED <<users, nextID, now, ctx, issued, probe>>

\* POST /register, second step: NewUser, CreateUser, write the response.
RegisterInsert(w, fault) ==
    /\ Listening
    /\ pc[w] = "reg_insert"
    /\ LET merr == RegisterModelErr(req[w])
           u    == NewUser(nextID + 1, req[w].name, req[w].email, req[w].password)
           err  == IF merr # <<>> THEN merr ELSE RegisterSaveErr(users, u, fault)
       IN  /\ merr = <<>> => nextID < MaxUsers
           /\ users' = IF merr # <<>> THEN users ELSE CreateUserRows(users, u, fault)
           /\ log' = [log EXCEPT ![w].fault = (merr = <<>> /\ fault),
                                 ![w].rejected = (merr = <<>> /\ ~fault /\ err # <<>>),
                                 ![w].wrote = IF err = <<>> THEN 1 ELSE 0]
           /\ resp' = [resp EXCEPT ![w] =
                 IF err # <<>> THEN RegisterError(err)
                 ELSE [status |-> 201,
                       body |-> [NoBody EXCEPT !.user = {ToUserResponse(u)}],
                       cookie |-> {}]]
           /\ nextID' = IF merr # <<>> THEN nextID ELSE nextID + 1
    /\ pc' = [pc EXCEPT ![w] = "done"]
    /\ UNCHANGED <<now, req, ctx, issued, probe>>

\* The connection is closed; the worker takes the next request.
Finish(w) ==
    /\ Listening
    /\ pc[w] = "done"
    /\ pc' = [pc EXCEPT ![w] = "idle"]
    /\ req' = [req EXCEPT ![w] = NoReq]
    /\ resp' = [resp EXCEPT ![w] = NoResp]
    /\ log' = [log EXCEPT ![w] = NoLog]
    /\ ctx' = [ctx EXCEPT ![w] = {}]
    /\ UNCHANGED <<users, nextID, now, issued, probe>>

RegisterBodies ==
    {[NoReq EXCEPT !.name = n, !.email = e, !.password = p] :
        n \in Names, e \in Emails, p \in Passwords}
    \cup {[NoReq EXCEPT !.malformed = TRUE]}

Init ==
    /\ users = {}
    /\ nextID = 0
    /\ now = 0
    /\ pc = [w \in Workers |-> "idle"]
    /\ req = [w \in Workers |-> NoReq]
    /\ ctx = [w \in Workers |-> {}]
    /\ resp = [w \in Workers |-> NoResp]
    /\ issued = {}
    /\ probe = NoProbe
    /\ log = [w \in Workers |-> NoLog]
    /\ proc = Serving

Next ==
    \/ \E w \in Workers, b \in RegisterBodies, f \in BOOLEAN : RegisterLookup(w, b, f)
    \/ \E w \in Workers, f \in BOOLEAN : RegisterInsert(w, f)
    \/ \E w \in Workers : Finish(w)

Spec == Init /\ [][Next]_vars

(***************************************************************************)
(* Registration: the properties checked under Spec.                        *)
(***************************************************************************)
\* A finished RegisterUser call (the handler decoded its body and called the service).
RegisterDone(w) == pc[w] = "done" /\ req[w].op = "register" /\ ~req[w].malformed

ValidRegister(w) == req[w].name # "" /\ req[w].email # "" /\ req[w].password # ""

\* Every identity the lookup of w returned was created by the call of v.
FoundOnlyFrom(w, v) == \A u \in log[w].found : ToUserResponse(u) \in resp[v].body.user

\* Two calls with the same email that raced from a directory without it, no fault.
RacingPair(w, v) ==
    /\ w # v
    /\ RegisterDone(w) /\ RegisterDone(v)
    /\ ValidRegister(w) /\ ValidRegister(v)
    /\ req[w].email = req[v].email
    /\ ~log[w].fault /\ ~log[v].fault
    /\ FoundOnlyFrom(w, v) /\ FoundOnlyFrom(v, w)

C2_UniqueViolationIsAlreadyExists ==
    \A w \in Workers :
        (RegisterDone(w) /\ log[w].rejected) =>
            /\ resp[w].status = 409
            /\ resp[w].body.text = "service: user with this email already exists"

\* C3 as stated: once the directory holds email e, every later RegisterUser
\* with that email, whatever its name and password, is answered 409 and writes
\* nothing.
C3_Original ==
    \A w \in Workers :
        (RegisterDone(w) /\ log[w].held) =>
            resp[w].status = 409 /\ log[w].wrote = 0

\* C3 amended: once the directory holds email e, a later RegisterUser with
\* that email writes nothing; it is answered 409 when its name and password
\* are non-empty and its lookup does not fail, 400 when its name or password
\* is empty, 500 when the lookup fails.  A 409 is answered only when the
\* directory held exactly that email: a case variant is another email.
C3_DuplicateRejected ==
    \A w \in Workers :
        /\ (RegisterDone(w) /\ log[w].held) =>
              /\ log[w].wrote = 0
              /\ (ValidRegister(w) /\ ~log[w].fault) =>
                    /\ resp[w].status = 409
                    /\ resp[w].body.text = "service: user with this email already exists"
              /\ ~ValidRegister(w) => resp[w].status = 400
              /\ (ValidRegister(w) /\ log[w].fault) => resp[w].status = 500
        /\ (RegisterDone(w) /\ resp[w].status = 409) => log[w].held
        /\ (RegisterDone(w) /\ ValidRegister(w) /\ ~log[w].held /\ ~log[w].fault
              /\ ~log[w].rejected) => resp[w].status = 201

\* C3 witness: the directory holds two emails that differ in case only, and a
\* registration repeating one of them under another name and password was
\* answered 409.
C3_Witness ==
    /\ \E a, b \in users : a.email # b.email /\ Lower(a.email) = Lower(b.email)
    /\ \E w \in Workers :
          /\ RegisterDone(w) /\ log[w].held /\ resp[w].status = 409
          /\ \E u \in log[w].found :
                u.name # req[w].name /\ ~CheckPassword(u, req[w].password)

(***************************************************************************)
(* The token codec on its own: GenerateJWT is called once, at any of the   *)
(* first ticks and for any lifetime, and ParseJWT is applied, at any later *)
(* time, to the token and to what can be made of it.                       *)
(***************************************************************************)
Keys == {jwtSecret, "attacker-key"}

Pads == {0, 1}

\* Token strings made from token t: any header algorithm, the payload kept or
\* changed, the signature kept, dropped or computed under some key.
Forgeries(t) ==
    LET cs == {t.claims,
               [t.claims EXCEPT !.user_id = @ + 1],
               [t.claims EXCEPT !.exp = @ + 1]}
        Sigs(a, c) == {t.sig, NoSig} \cup {Sign(a, k, c) : k \in Keys}
    IN  UNION {{Jws(a, c, sg, p) : sg \in Sigs(a, c), p \in Pads} :
                  a \in Algs, c \in cs}

\* What a caller may hand to ParseJWT.
Presentable == {Garbage} \cup UNION {Forgeries(g.tok) : g \in issued}

\* time.Now moves on.
Tick(d, horizon) ==
    /\ now + d <= horizon
    /\ now' = now + d
    /\ UNCHANGED <<users, nextID, pc, req, ctx, resp, issued, log, proc>>

CodecHorizon == MaxStart + MaxTTL + TicksPerSec + 2

\* A call of GenerateJWT; the clock may move on by a tick between two of its
\* readings of time.Now.
IssueToken(userID, username, expiration, d2, d3) ==
    /\ issued = {}
    /\ now <= MaxStart
    /\ issued' = {[tok |-> GenerateJWT(userID, username, expiration,
                                       now, now + d2, now + d2 + d3),
                   t0  |-> now,
                   ttl |-> expiration]}
    /\ now' = now + d2 + d3
    /\ UNCHANGED <<users, nextID, pc, req, ctx, resp, probe, log, proc>>

\* A call of ParseJWT.
ParseToken(tok) ==
    /\ probe' = [tok |-> tok, at |-> now, res |-> ParseJWT(tok, now)]
    /\ UNCHANGED <<users, nextID, now, pc, req, ctx, resp, issued, log, proc>>

\* The caller of ParseJWT has used its result by the time the clock moves on.
CodecTick ==
    /\ Tick(1, CodecHorizon)
    /\ probe' = NoProbe

\* The lifetimes asked of GenerateJWT: short ones, and the one of a login.
Lifetimes == (1..MaxTTL) \cup {15 * 60 * TicksPerSec}

NextCodec ==
    \/ \E ttl \in Lifetimes, d2 \in {0, 1} : IssueToken(1, "Ann", ttl, d2, 0)
    \/ \E tok \in Presentable : ParseToken(tok)
    \/ CodecTick

SpecCodec == Init /\ [][NextCodec]_vars

\* The instant (in ticks) the token of grant g expires: issue time plus
\* lifetime, truncated to a whole second.
ExpiryOf(g) == DateTicks(NumericDate(g.t0 + g.ttl))

\* C5 as stated: an untampered token issued at t0 for T is accepted at every
\* t with t0 <= t < t0+T and rejected as expired at every t >= t0+T.
C5_Original ==
    \A g \in issued :
        probe.tok = g.tok =>
            /\ probe.at < g.t0 + g.ttl => probe.res.errs = {}
            /\ probe.at >= g.t0 + g.ttl => TokenExpired(probe.res.errs)

\* C5 amended: an untampered token issued at t0 for T is accepted at every t
\* with t0 <= t < E and rejected as expired (not as invalid) at every t >= E,
\* where E is t0+T truncated to a whole second; so it is rejected at t0+T, and
\* accepted at t0 when T is a second or more.
C5_ValidityWindow ==
    \A g \in issued :
        probe.tok = g.tok =>
            /\ probe.at >= g.t0
            /\ probe.at < ExpiryOf(g) =>
                  probe.res = [errs |-> {}, claims |-> {g.tok.claims}]
            /\ probe.at >= ExpiryOf(g) =>
                  /\ TokenExpired(probe.res.errs)
                  /\ ~TokenInvalid(probe.res.errs)
                  /\ probe.res.claims = {}
            /\ probe.at >= g.t0 + g.ttl => TokenExpired(probe.res.errs)
            /\ (probe.at = g.t0 /\ g.ttl >= TicksPerSec) => probe.res.errs = {}

\* C5 witness: a token issued off a whole second is rejected as expired
\* before its full lifetime has passed.
C5_Witness ==
    \E g \in issued :
        /\ probe.tok = g.tok
        /\ g.ttl >= TicksPerSec
        /\ probe.at >= ExpiryOf(g) /\ probe.at < g.t0 + g.ttl
        /\ TokenExpired(probe.res.errs)

\* p is t with one segment altered: the payload, or the signature.
Tampered(p, t) ==
    /\ p.form = "jws" /\ p.alg = t.alg
    /\ \/ p.claims # t.claims /\ p.sig = t.sig /\ p.pad = t.pad
       \/ p.claims = t.claims /\ (p.sig # t.sig \/ p.pad # t.pad)

\* C6 as stated: a token string that differs from an issued one in its payload
\* segment or in its signature segment is rejected as invalid, never as
\* expired, at every time; accepted claims were signed with the process key.
C6_Original ==
    /\ \A g \in issued :
          Tampered(probe.tok, g.tok) =>
              TokenInvalid(probe.res.errs) /\ ~TokenExpired(probe.res.errs)
    /\ probe.res.errs = {} =>
          probe.tok.sig = Sign(probe.tok.alg, jwtSecret, probe.tok.claims)

\* C6 amended: a token string whose payload differs from an issued one, or
\* whose signature segment decodes to other signature bytes, is rejected as
\* invalid, never as expired, at every time; one that differs only in the
\* padding bits of the last signature character is treated as the issued one;
\* accepted claims were signed with the process key.
C6_Integrity ==
    /\ \A g \in issued :
          /\ (Tampered(probe.tok, g.tok)
                /\ (probe.tok.claims # g.tok.claims \/ probe.tok.sig # g.tok.sig)) =>
                TokenInvalid(probe.res.errs) /\ ~TokenExpired(probe.res.errs)
          /\ (Tampered(probe.tok, g.tok)
                /\ probe.tok.claims = g.tok.claims /\ probe.tok.sig = g.tok.sig) =>
                probe.res = ParseJWT(g.tok, probe.at)
    /\ probe.res.errs = {} =>
          /\ probe.tok.sig = Sign(probe.tok.alg, jwtSecret, probe.tok.claims)
          /\ probe.res.claims = {probe.tok.claims}

\* C6 witness: an issued token whose payload was given a later expiry is
\* rejected as invalid after the issued token has expired.
C6_Witness ==
    \E g \in issued :
        /\ Tampered(probe.tok, g.tok)
        /\ probe.tok.claims.exp > g.tok.claims.exp
        /\ probe.at >= ExpiryOf(g)
        /\ TokenInvalid(probe.res.errs)

\* C7 as stated: a token whose header asserts another algorithm than the
\* HS256 of GenerateJWT is rejected, whatever its payload and signature.
C7_Original ==
    (probe.tok.form = "jws" /\ probe.tok.alg # "HS256") => probe.res.errs # {}

\* C7 amended: a token whose header asserts an algorithm that is not an HMAC
\* one is rejected by the key function, whatever its payload and signature; a
\* token asserting another HMAC algorithm than HS256 is accepted only with
\* that algorithm's signature under the process key.
C7_AlgorithmCheck ==
    probe.tok.form = "jws" =>
        /\ ~IsHMAC(probe.tok.alg) => probe.res.errs = {"ErrTokenUnverifiable"}
        /\ (probe.tok.alg # "HS256" /\ probe.res.errs = {}) =>
              /\ IsHMAC(probe.tok.alg)
              /\ probe.tok.sig = Sign(probe.tok.alg, jwtSecret, probe.tok.claims)

\* C7 witness: an unexpired issued token whose header was changed to "none"
\* and whose signature was dropped is rejected.
C7_Witness ==
    \E g \in issued :
        /\ probe.tok = Jws("none", g.tok.claims, NoSig, 0)
        /\ probe.at < ExpiryOf(g)
        /\ probe.res.errs = {"ErrTokenUnverifiable"}

(***************************************************************************)
(* The running service: the directory after two registrations, login, the  *)
(* session gate and the handlers behind it.                                *)
(***************************************************************************)
MaxDrift == 1        \* gate runs: ticks the clock makes one by one around an instant

MaxDraws == 1        \* gate runs: uuids and salts drawn after the two registrations

Ann == [id |-> 1, name |-> "Ann", email |-> "ann@x.com",
        password_hash |-> Bcrypt("Secret123", 1), created_at |-> 0]

Bob == [id |-> 2, name |-> "Bob", email |-> "bob@x.com",
        password_hash |-> Bcrypt("hunter2", 2), created_at |-> 0]

Directory0 == {Ann, Bob}

InitGate ==
    /\ users = Directory0
    /\ nextID = Cardinality(Directory0)
    /\ now = 0
    /\ pc = [w \in Workers |-> "idle"]
    /\ req = [w \in Workers |-> NoReq]
    /\ ctx = [w \in Workers |-> {}]
    /\ resp = [w \in Workers |-> NoResp]
    /\ issued = {}
    /\ probe = NoProbe
    /\ log = [w \in Workers |-> NoLog]
    /\ proc = Serving

\* Mutant: the token lives an hour.
tokenDuration_Hour == 60 * 60 * TicksPerSec

\* tokenDuration := 15 * time.Minute, in ticks.
tokenDuration == 15 * 60 * TicksPerSec

\* The clock: it ticks one by one near the start and near the end of a token's
\* lifetime, and jumps over the time between.
Jump == tokenDuration - 1

GateTick ==
    /\ \E d \in {1, Jump} :
          /\ d = 1 => now % Jump < MaxDrift
          /\ d = Jump => now < Jump
          /\ Tick(d, Jump + MaxDrift)
    /\ probe' = probe

\* err.Error() of a service error that wraps nothing.
ErrorString(err) == err[1]

\* strings.Contains(s, needle), for the messages of the service and the needles
\* of the handlers.
Substrings ==
    {<<"service: user with this email already exists", "already exists">>,
     <<"service: name, email, and password are required", "required">>,
     <<"service: email is required", "required">>,
     <<"service: user not found", "not found">>,
     <<"service: user not found for update", "not found">>,
     <<"service: user not found for deletion", "not found">>,
     <<"service: new email already in use by another user", "already in use">>}

\* strings.Contains(err.Error(), needle)
Contains(err, needle) == \E i \in 1..Len(err) : <<err[i], needle>> \in Substrings

(***************************************************************************)
(* AuthServiceImpl.AuthenticateUser and AuthHandlers.Login                 *)
(***************************************************************************)
\* Mutant: the service tells an unknown email from a wrong password.
AuthenticateErr_Tells(r, found, fault) ==
    IF r.email = "" \/ r.password = ""
    THEN <<"service: email and password are required">>
    ELSE IF fault
         THEN <<"service: failed to retrieve user for authentication",
                "repository: failed to get user by email", PqFault>>
         ELSE IF found = {}
              THEN <<"service: user not found">>
              ELSE IF \E u \in found : ~CheckPassword(u, r.password)
                   THEN <<"service: invalid credentials">>
                   ELSE <<>>

\* The error AuthenticateUser returns before it builds the token (<<>>: none).
AuthenticateErr(r, found, fault) ==
    IF r.email = "" \/ r.password = ""
    THEN <<"service: email and password are required">>
    ELSE IF fault
         THEN <<"service: failed to retrieve user for authentication",
                "repository: failed to get user by email", PqFault>>
         ELSE IF found = {} \/ \E u \in found : ~CheckPassword(u, r.password)
              THEN <<"service: invalid credentials">>
              ELSE <<>>

\* The status and body Login writes for a service error.
LoginError(err) ==
    IF err = <<"service: invalid credentials">>
    THEN HttpError(err[1], 401)
    ELSE IF err = <<"service: email and password are required">>
         THEN HttpError(err[1], 400)
         ELSE HttpError("Failed to authenticate", 500)

\* Mutant: the token is in the body only.
LoginOK_NoCookie(u, tok, t) ==
    [status |-> 200,
     body   |-> [NoBody EXCEPT !.user = {ToUserResponse(u)},
                               !.token = {tok},
                               !.expires_in_sec = tokenDuration \div TicksPerSec],
     cookie |-> {}]

\* What Login writes on success: the AuthResponse and the session cookie.
LoginOK(u, tok, t) ==
    [status |-> 200,
     body   |-> [NoBody EXCEPT !.user = {ToUserResponse(u)},
                               !.token = {tok},
                               !.expires_in_sec = tokenDuration \div TicksPerSec],
     cookie |-> {[name |-> "jwt_token", value |-> {tok},
                  expires |-> t + (tokenDuration \div TicksPerSec) * TicksPerSec]}]

\* The tokens the clients go on holding when the subject id logs in again: the
\* new jwt_token cookie replaces the one its client held.
Held(grants, id) == {g \in grants : g.tok.claims.user_id # id}

\* Mutant: a login stamps the row it found.
AuthenticateUserRows_Stamp(tbl, found) ==
    {IF u \in found THEN [u EXCEPT !.created_at = now + 1] ELSE u : u \in tbl}

\* The users table after AuthenticateUser: its only statement is the SELECT of
\* GetUserByEmail.
AuthenticateUserRows(tbl, found) == tbl

\* POST /login: decode, AuthenticateUser (one lookup), write the response.
Login(w, body, fault) ==
    /\ Listening
    /\ pc[w] = "idle"
    /\ now < MaxDrift
    /\ req' = [req EXCEPT ![w] = [body EXCEPT !.op = "POST /login"]]
    /\ LET valid == ~body.malformed /\ body.email # "" /\ body.password # ""
           found == IF valid /\ ~fault THEN GetUserByEmail(users, body.email) ELSE {}
           err   == AuthenticateErr(body, found, fault)
       IN  /\ log' = [log EXCEPT ![w] =
                        [NoLog EXCEPT !.held = (\E u \in users : u.email = body.email),
                                      !.found = found,
                                      !.fault = valid /\ fault,
                                      !.at = now]]
           /\ users' = AuthenticateUserRows(users, found)
           /\ IF body.malformed
              THEN /\ resp' = [resp EXCEPT ![w] = HttpError("Invalid request payload", 400)]
                   /\ issued' = issued
              ELSE IF err # <<>>
                   THEN /\ resp' = [resp EXCEPT ![w] = LoginError(err)]
                        /\ issued' = issued
                   ELSE \E u \in found :
                          LET tok == GenerateJWT(u.id, u.name, tokenDuration, now, now, now)
                          IN  /\ issued' = Held(issued, u.id) \cup
                                    {[tok |-> tok, t0 |-> now, ttl |-> tokenDuration]}
                              /\ resp' = [resp EXCEPT ![w] = LoginOK(u, tok, now)]
    /\ pc' = [pc EXCEPT ![w] = "done"]
    /\ UNCHANGED <<nextID, now, ctx, probe>>

LoginBodies ==
    {[NoReq EXCEPT !.email = e, !.password = p] :
        e \in {"", "ann@x.com", "bob@x.com", "eve@x.com"},
        p \in {"", "Secret123", "hunter2"}}
    \cup {[NoReq EXCEPT !.malformed = TRUE]}

NextLogin ==
    \/ \E w \in Workers, b \in LoginBodies, f \in BOOLEAN : Login(w, b, f)
    \/ \E w \in Workers : Finish(w)
    \/ GateTick

SpecLogin == InitGate /\ [][NextLogin]_vars

(***************************************************************************)
(* main: the route table                                                   *)
(***************************************************************************)
Routes ==
    {[pattern |-> "POST /register",      gated |-> FALSE, handler |-> "Register"],
     [pattern |-> "POST /login",         gated |-> FALSE, handler |-> "Login"],
     [pattern |-> "GET /protected",      gated |-> TRUE,  handler |-> "ProtectedRoute"],
     [pattern |-> "POST /logout",        gated |-> TRUE,  handler |-> "Logout"],
     [pattern |-> "GET /users",          gated |-> TRUE,  handler |-> "GetAllUsers"],
     [pattern |-> "POST /users",         gated |-> TRUE,  handler |-> "CreateUser"],
     [pattern |-> "GET /users/{id}",     gated |-> TRUE,  handler |-> "GetUserByID"],
     [pattern |-> "PUT /users/{id}",     gated |-> TRUE,  handler |-> "UpdateUser"],
     [pattern |-> "DELETE /users/{id}",  gated |-> TRUE,  handler |-> "DeleteUser"],
     [pattern |-> "GET /users/by-email", gated |-> TRUE,  handler |-> "GetUserByEmail"],
     [pattern |-> "GET /health",         gated |-> FALSE, handler |-> "HealthCheck"]}

(***************************************************************************)
(* AuthMiddleware                                                          *)
(***************************************************************************)
\* Mutant: the gate lets every request with a cookie through.
AuthMiddlewareResp_AnyCookie(cookie, t) ==
    IF cookie = {}
    THEN HttpError("Unauthorized: No token provided", 401)
    ELSE NoResp

\* Mutant: the gate refuses a token a logout has been answered for.
AuthMiddlewareResp_Revoked(cookie, t) ==
    IF cookie = {}
    THEN HttpError("Unauthorized: No token provided", 401)
    ELSE IF \/ \E tok \in cookie : ParseJWT(tok, t).errs # {}
            \/ \E w \in Workers : /\ pc[w] = "done" /\ req[w].op = "POST /logout"
                                   /\ resp[w].status = 200 /\ req[w].cookie = cookie
         THEN HttpError("Unauthorized: Invalid token", 401)
         ELSE NoResp

\* Mutant: the gate also looks the token's subject up in the directory.
AuthMiddlewareResp_Lookup(cookie, t) ==
    IF cookie = {}
    THEN HttpError("Unauthorized: No token provided", 401)
    ELSE IF \E tok \in cookie :
               \/ ParseJWT(tok, t).errs # {}
               \/ GetUserByID(users, tok.claims.user_id) = {}
         THEN HttpError("Unauthorized: Invalid token", 401)
         ELSE NoResp

\* What the gate answers by itself (NoResp: nothing, the request goes on).
\* Request.Cookie returns no error but ErrNoCookie, so the 400 branch of the
\* middleware is never taken.
AuthMiddlewareResp(cookie, t) ==
    IF cookie = {}
    THEN HttpError("Unauthorized: No token provided", 401)
    ELSE IF \E tok \in cookie : ParseJWT(tok, t).errs # {}
         THEN HttpError("Unauthorized: Invalid token", 401)
         ELSE NoResp

\* Mutant: the gate stores the id of the other identity.
UserContext_Other(claims) == (claims.user_id % 2) + 1

\* context.WithValue(ctx, UserContextKey, claims.UserID)
UserContext(claims) == claims.user_id

\* A jwt_token pair of the Cookie header whose value holds a byte a cookie
\* value may not hold.
Unreadable == [form |-> "unreadable", alg |-> "", claims |-> NoClaims, sig |-> NoSig, pad |-> 0]

\* Request.Cookie("jwt_token"): net/http skips the pairs it cannot parse and
\* reports ErrNoCookie ({}) when none is left; it has no other error.
RequestCookie(header) == {tok \in header : tok.form # "unreadable"}

\* A request to a gated route reaches AuthMiddleware.
AuthMiddleware(w, route, cookie) ==
    /\ Listening
    /\ pc[w] = "idle"
    /\ route.gated
    /\ req' = [req EXCEPT ![w] = [NoReq EXCEPT !.op = route.pattern, !.cookie = cookie]]
    /\ log' = [log EXCEPT ![w] =
                 [NoLog EXCEPT !.at = now,
                               !.subject = UNION {GetUserByID(users, tok.claims.user_id) :
                                                     tok \in cookie}]]
    /\ LET r      == AuthMiddlewareResp(RequestCookie(cookie), now)
           claims == UNION {ParseJWT(tok, now).claims : tok \in RequestCookie(cookie)}
       IN  IF r # NoResp
           THEN /\ resp' = [resp EXCEPT ![w] = r]
                /\ pc' = [pc EXCEPT ![w] = "done"]
                /\ ctx' = ctx
           ELSE /\ resp' = resp
                /\ pc' = [pc EXCEPT ![w] = route.handler]
                /\ ctx' = [ctx EXCEPT ![w] = {UserContext(c) : c \in claims}]
    /\ UNCHANGED <<users, nextID, now, issued, probe>>

\* The token strings a client may carry: the tokens it was given, one of them
\* with the subject changed.
Carried ==
    {g.tok : g \in issued}
    \cup {Jws(g.tok.alg, [g.tok.claims EXCEPT !.user_id = (@ % 2) + 1], g.tok.sig, 0) :
             g \in issued}

Cookies == {{}} \cup {{tok} : tok \in Carried}

(***************************************************************************)
(* AuthHandlers.ProtectedRoute, AuthHandlers.Logout                        *)
(***************************************************************************)
\* The end of a handler: its response is written.
Respond(w, r) ==
    /\ resp' = [resp EXCEPT ![w] = r]
    /\ pc' = [pc EXCEPT ![w] = "done"]

ProtectedRoute(w) ==
    /\ Listening
    /\ pc[w] = "ProtectedRoute"
    /\ log' = [log EXCEPT ![w].ran = TRUE]
    /\ Respond(w, IF ctx[w] = {}
                  THEN HttpError("Internal server error: User ID not found in context", 500)
                  ELSE [status |-> 200,
                        body   |-> [NoBody EXCEPT !.text = "Welcome to the protected area",
                                                  !.subject = ctx[w]],
                        cookie |-> {}])
    /\ UNCHANGED <<users, nextID, now, req, ctx, issued, probe>>

Logout(w) ==
    /\ Listening
    /\ pc[w] = "Logout"
    /\ log' = [log EXCEPT ![w].ran = TRUE]
    /\ Respond(w, [status |-> 200,
                   body   |-> [NoBody EXCEPT !.text = "Logged out successfully"],
                   cookie |-> {[name |-> "jwt_token", value |-> {}, expires |-> 0]}])
    /\ UNCHANGED <<users, nextID, now, req, ctx, issued, probe>>

(***************************************************************************)
(* UserHandler and UserServiceImpl                                         *)
(***************************************************************************)
\* A response carrying identities.
UserJSON(status, us) ==
    [status |-> status,
     body   |-> [NoBody EXCEPT !.user = {ToUserResponse(u) : u \in us}],
     cookie |-> {}]

\* GET /users
GetAllUsers(w, fault) ==
    /\ Listening
    /\ pc[w] = "GetAllUsers"
    /\ log' = [log EXCEPT ![w].ran = TRUE, ![w].fault = fault]
    /\ Respond(w, IF fault THEN HttpError("Failed to get users", 500)
                  ELSE UserJSON(200, users))
    /\ UNCHANGED <<users, nextID, now, req, ctx, issued, probe>>

\* The error of UserServiceImpl.GetUserByID and GetUserByEmail after the lookup.
GetUserErr(found, fault, by) ==
    IF fault
    THEN <<IF by = "id" THEN "service: failed to retrieve user by ID"
                        ELSE "service: failed to retrieve user by email",
           IF by = "id" THEN "repository: failed to get user by ID"
                        ELSE "repository: failed to get user by email",
           PqFault>>
    ELSE IF found = {} THEN <<"service: user not found">> ELSE <<>>

\* What the handlers GetUserByID and GetUserByEmail write.
GetUserResp(found, err) ==
    IF err = <<>> THEN UserJSON(200, found)
    ELSE IF Contains(err, "not found") THEN HttpError(ErrorString(err), 404)
    ELSE IF Contains(err, "required") THEN HttpError(ErrorString(err), 400)
    ELSE HttpError("Failed to get user", 500)

\* GET /users/{id}   (id 0: the path value is no uuid)
UserGetByID(w, id, fault) ==
    /\ Listening
    /\ pc[w] = "GetUserByID"
    /\ req' = [req EXCEPT ![w].id = id]
    /\ log' = [log EXCEPT ![w].ran = TRUE, ![w].fault = (id # 0 /\ fault)]
    /\ LET found == IF fault THEN {} ELSE GetUserByID(users, id)
       IN  Respond(w, IF id = 0 THEN HttpError("Invalid user ID format", 400)
                      ELSE GetUserResp(found, GetUserErr(found, fault, "id")))
    /\ UNCHANGED <<users, nextID, now, ctx, issued, probe>>

\* GET /users/by-email?email=...
UserGetByEmail(w, email, fault) ==
    /\ Listening
    /\ pc[w] = "GetUserByEmail"
    /\ req' = [req EXCEPT ![w].email = email]
    /\ log' = [log EXCEPT ![w].ran = TRUE, ![w].fault = (email # "" /\ fault)]
    /\ LET found == IF fault THEN {} ELSE GetUserByEmail(users, email)
       IN  Respond(w, IF email = ""
                      THEN HttpError("Email query parameter is required", 400)
                      ELSE GetUserResp(found, GetUserErr(found, fault, "email")))
    /\ UNCHANGED <<users, nextID, now, ctx, issued, probe>>

\* UserServiceImpl.CreateUser up to and including its lookup.
CreateUserCheckErr(r, found, fault) ==
    IF r.name = "" \/ r.email = "" \/ r.password = ""
    THEN <<"service: name, email, and password are required">>
    ELSE IF fault
         THEN <<"service: failed to check for existing user by email",
                "repository: failed to get user by email", PqFault>>
         ELSE IF found # {}
              THEN <<"service: user with this email already exists">>
              ELSE <<>>

\* What the handler CreateUser writes for a service error.
CreateUserError(err) ==
    IF Contains(err, "already exists") THEN HttpError(ErrorString(err), 409)
    ELSE IF Contains(err, "required") THEN HttpError(ErrorString(err), 400)
    ELSE HttpError("Failed to create user", 500)

\* POST /users, first step: decode, validate, look the email up.
UserCreateLookup(w, body, fault) ==
    /\ Listening
    /\ pc[w] = "CreateUser"
    /\ req' = [req EXCEPT ![w].malformed = body.malformed, ![w].name = body.name,
                          ![w].email = body.email, ![w].password = body.password]
    /\ LET valid == ~body.malformed /\ body.name # "" /\ body.email # "" /\ body.password # ""
           found == IF valid /\ ~fault THEN GetUserByEmail(users, body.email) ELSE {}
           err   == CreateUserCheckErr(body, found, fault)
       IN  /\ log' = [log EXCEPT ![w].ran = TRUE,
                                 ![w].held = (\E u \in users : u.email = body.email),
                                 ![w].found = found,
                                 ![w].fault = valid /\ fault]
           /\ IF body.malformed
              THEN Respond(w, HttpError("Invalid request payload", 400))
              ELSE IF err # <<>>
                   THEN Respond(w, CreateUserError(err))
                   ELSE /\ resp' = resp
                        /\ pc' = [pc EXCEPT ![w] = "CreateUser_insert"]
    /\ UNCHANGED <<users, nextID, now, ctx, issued, probe>>

\* POST /users, second step: NewUser, the insert, the response.
UserCreateInsert(w, fault) ==
    /\ Listening
    /\ pc[w] = "CreateUser_insert"
    /\ LET merr == RegisterModelErr(req[w])
           u    == NewUser(nextID + 1, req[w].name, req[w].email, req[w].password)
           err  == IF merr # <<>> THEN merr ELSE RegisterSaveErr(users, u, fault)
       IN  /\ merr = <<>> => nextID < Cardinality(Directory0) + MaxDraws
           /\ users' = IF merr # <<>> THEN users ELSE CreateUserRows(users, u, fault)
           /\ log' = [log EXCEPT ![w].fault = (merr = <<>> /\ fault),
                                 ![w].rejected = (merr = <<>> /\ ~fault /\ err # <<>>),
                                 ![w].wrote = IF err = <<>> THEN 1 ELSE 0]
           /\ Respond(w, IF err # <<>> THEN CreateUserError(err) ELSE UserJSON(201, {u}))
           /\ nextID' = IF merr # <<>> THEN nextID ELSE nextID + 1
    /\ UNCHANGED <<now, req, ctx, issued, probe>>

\* UserServiceImpl.UpdateUser: the error after its GetUserByID.
UpdateGetErr(found, fault) ==
    IF fault
    THEN <<"service: failed to retrieve user for update",
           "repository: failed to get user by ID", PqFault>>
    ELSE IF found = {} THEN <<"service: user not found for update">> ELSE <<>>

\* UserServiceImpl.UpdateUser: the error after its check of the new email.
UpdateCheckErr(existing, found, fault) ==
    IF fault
    THEN <<"service: failed to check for email uniqueness",
           "repository: failed to get user by email", PqFault>>
    ELSE IF \E v \in found : v.id # existing.id
         THEN <<"service: new email already in use by another user">>
         ELSE <<>>

\* Mutant: the table has no UNIQUE constraint for the UPDATE to violate.
UpdateUserErr_NoUnique(tbl, u, fault) ==
    IF fault THEN <<"repository: failed to update user", PqFault>> ELSE <<>>

\* UPDATE users SET name, email, password_hash WHERE id = $5 : the error.
UpdateUserErr(tbl, u, fault) ==
    IF fault THEN <<"repository: failed to update user", PqFault>>
    ELSE IF \E v \in tbl, x \in tbl : v.id = u.id /\ x.id # u.id /\ x.email = u.email
         THEN <<"repository: failed to update user", PqDuplicate>>
         ELSE <<>>

\* UPDATE users ... : the table afterwards.
UpdateUserRows(tbl, u, fault) ==
    IF UpdateUserErr(tbl, u, fault) # <<>> THEN tbl
    ELSE {IF v.id = u.id
          THEN [v EXCEPT !.name = u.name, !.email = u.email,
                         !.password_hash = u.password_hash]
          ELSE v : v \in tbl}

\* DELETE FROM users WHERE id = $1 : the table afterwards.
DeleteUserRows(tbl, id, fault) == IF fault THEN tbl ELSE {v \in tbl : v.id # id}

\* The fields of the request applied to the identity read.
ApplyUpdate(existing, r, salt) ==
    [existing EXCEPT !.name = IF r.name # "" THEN r.name ELSE @,
                     !.email = IF r.email # "" THEN r.email ELSE @,
                     !.password_hash = IF r.password # ""
                                       THEN Bcrypt(r.password, salt) ELSE @]

\* UserServiceImpl.UpdateUser: the error when the new password cannot be hashed.
UpdateHashErr(r) ==
    IF r.password = "" \/ NewUserErr(r.password) = <<>> THEN <<>>
    ELSE <<"service: failed to hash new password">> \o NewUserErr(r.password)

\* What the handler UpdateUser writes for a service error.
UpdateUserError(err) ==
    IF Contains(err, "not found") THEN HttpError(ErrorString(err), 404)
    ELSE IF Contains(err, "already in use") \/ Contains(err, "required")
         THEN HttpError(ErrorString(err), 400)
         ELSE HttpError("Failed to update user", 500)

\* PUT /users/{id}, first step: parse the id, decode, read the identity.
UserUpdateGet(w, id, body, fault) ==
    /\ Listening
    /\ pc[w] = "UpdateUser"
    /\ req' = [req EXCEPT ![w].id = id, ![w].malformed = body.malformed,
                          ![w].name = body.name, ![w].email = body.email,
                          ![w].password = body.password]
    /\ LET read  == id # 0 /\ ~body.malformed
           found == IF read /\ ~fault THEN GetUserByID(users, id) ELSE {}
           err   == UpdateGetErr(found, fault)
       IN  /\ log' = [log EXCEPT ![w].ran = TRUE, ![w].found = found,
                                 ![w].fault = read /\ fault]
           /\ IF id = 0
              THEN Respond(w, HttpError("Invalid user ID format", 400))
              ELSE IF body.malformed
                   THEN Respond(w, HttpError("Invalid request payload", 400))
                   ELSE IF err # <<>>
                        THEN Respond(w, UpdateUserError(err))
                        ELSE /\ resp' = resp
                             /\ pc' = [pc EXCEPT ![w] =
                                   IF body.email # "" /\ \E u \in found : body.email # u.email
                                   THEN "UpdateUser_check" ELSE "UpdateUser_exec"]
    /\ UNCHANGED <<users, nextID, now, ctx, issued, probe>>

\* PUT /users/{id}, second step (the email changes): is the new email in use?
UserUpdateCheck(w, fault) ==
    /\ Listening
    /\ pc[w] = "UpdateUser_check"
    /\ LET found == IF fault THEN {} ELSE GetUserByEmail(users, req[w].email)
           err   == UpdateCheckErr(CHOOSE u \in log[w].found : TRUE, found, fault)
       IN  /\ log' = [log EXCEPT ![w].fault = fault]
           /\ IF err # <<>>
              THEN Respond(w, UpdateUserError(err))
              ELSE /\ resp' = resp
                   /\ pc' = [pc EXCEPT ![w] = "UpdateUser_exec"]
    /\ UNCHANGED <<users, nextID, now, req, ctx, issued, probe>>

\* PUT /users/{id}, last step: hash a new password, the UPDATE, the response.
UserUpdateExec(w, fault) ==
    /\ Listening
    /\ pc[w] = "UpdateUser_exec"
    /\ LET herr == UpdateHashErr(req[w])
           hash == req[w].password # "" /\ herr = <<>>
           u    == ApplyUpdate(CHOOSE x \in log[w].found : TRUE, req[w], nextID + 1)
           rerr == UpdateUserErr(users, u, fault)
           err  == IF herr # <<>> THEN herr
                   ELSE IF rerr = <<>> THEN <<>>
                        ELSE <<"service: failed to update user">> \o rerr
       IN  /\ hash => nextID < Cardinality(Directory0) + MaxDraws
           /\ users' = IF herr # <<>> THEN users ELSE UpdateUserRows(users, u, fault)
           /\ log' = [log EXCEPT ![w].fault = (herr = <<>> /\ fault),
                                 ![w].rejected = (herr = <<>> /\ ~fault /\ err # <<>>),
                                 ![w].wrote = IF users' # users THEN 1 ELSE 0]
           /\ Respond(w, IF err # <<>> THEN UpdateUserError(err) ELSE UserJSON(200, {u}))
           /\ nextID' = IF hash THEN nextID + 1 ELSE nextID
    /\ UNCHANGED <<now, req, ctx, issued, probe>>

\* UserServiceImpl.DeleteUser: the error after its GetUserByID.
DeleteGetErr(found, fault) ==
    IF fault
    THEN <<"service: failed to check user existence before delete",
           "repository: failed to get user by ID", PqFault>>
    ELSE IF found = {} THEN <<"service: user not found for deletion">> ELSE <<>>

\* What the handler DeleteUser writes for a service error.
DeleteUserError(err) ==
    IF Contains(err, "not found") THEN HttpError(ErrorString(err), 404)
    ELSE HttpError("Failed to delete user", 500)

\* DELETE /users/{id}, first step: parse the id, read the identity.
UserDeleteGet(w, id, fault) ==
    /\ Listening
    /\ pc[w] = "DeleteUser"
    /\ req' = [req EXCEPT ![w].id = id]
    /\ LET found == IF id # 0 /\ ~fault THEN GetUserByID(users, id) ELSE {}
           err   == DeleteGetErr(found, fault)
       IN  /\ log' = [log EXCEPT ![w].ran = TRUE, ![w].found = found,
                                 ![w].fault = (id # 0 /\ fault)]
           /\ IF id = 0
              THEN Respond(w, HttpError("Invalid user ID format", 400))
              ELSE IF err # <<>>
                   THEN Respond(w, DeleteUserError(err))
                   ELSE /\ resp' = resp
                        /\ pc' = [pc EXCEPT ![w] = "DeleteUser_exec"]
    /\ UNCHANGED <<users, nextID, now, ctx, issued, probe>>

\* DELETE /users/{id}, second step: the DELETE, the response.
UserDeleteExec(w, fault) ==
    /\ Listening
    /\ pc[w] = "DeleteUser_exec"
    /\ users' = DeleteUserRows(users, req[w].id, fault)
    /\ log' = [log EXCEPT ![w].fault = fault,
                          ![w].wrote = IF users' # users THEN 1 ELSE 0]
    /\ Respond(w, IF fault
                  THEN DeleteUserError(<<"service: failed to delete user",
                                         "repository: failed to delete user", PqFault>>)
                  ELSE [NoResp EXCEPT !.status = 204])
    /\ UNCHANGED <<nextID, now, req, ctx, issued, probe>>

\* The requests of a run.
ItemIds == {0, 1}

UpdateBodies ==
    {[NoReq EXCEPT !.name = "Zed"],
     [NoReq EXCEPT !.name = "Zed", !.email = "zed@x.com", !.password = "newpw"],
     [NoReq EXCEPT !.malformed = TRUE]}

CreateBodies ==
    {[NoReq EXCEPT !.name = "Cy", !.email = "cy@x.com", !.password = "pw3"],
     [NoReq EXCEPT !.name = "Bob", !.email = "bob@x.com", !.password = "pw3"],
     [NoReq EXCEPT !.malformed = TRUE]}

GateLogins ==
    {[NoReq EXCEPT !.email = "ann@x.com", !.password = "Secret123"],
     [NoReq EXCEPT !.email = "bob@x.com", !.password = "hunter2"],
     [NoReq EXCEPT !.email = "zed@x.com", !.password = "newpw"],
     [NoReq EXCEPT !.email = "ann@x.com", !.password = "hunter2"]}

Faults == BOOLEAN

\* The connection the requests of a gate run arrive on, one after another.
Serial == {"w1"}

NextGate ==
    \/ \E w \in Serial, b \in GateLogins : Login(w, b, FALSE)
    \/ \E w \in Serial, r \in Routes, c \in Cookies : AuthMiddleware(w, r, c)
    \/ \E w \in Serial : ProtectedRoute(w)
    \/ \E w \in Serial : Logout(w)
    \/ \E w \in Serial, f \in Faults : GetAllUsers(w, f)
    \/ \E w \in Serial, id \in ItemIds, f \in Faults : UserGetByID(w, id, f)
    \/ \E w \in Serial, e \in {"", "ann@x.com"}, f \in Faults : UserGetByEmail(w, e, f)
    \/ \E w \in Serial, b \in CreateBodies, f \in Faults : UserCreateLookup(w, b, f)
    \/ \E w \in Serial, f \in Faults : UserCreateInsert(w, f)
    \/ \E w \in Serial, id \in ItemIds, b \in UpdateBodies, f \in Faults :
          UserUpdateGet(w, id, b, f)
    \/ \E w \in Serial, f \in Faults : UserUpdateCheck(w, f)
    \/ \E w \in Serial, f \in Faults : UserUpdateExec(w, f)
    \/ \E w \in Serial, id \in ItemIds, f \in Faults : UserDeleteGet(w, id, f)
    \/ \E w \in Serial, f \in Faults : UserDeleteExec(w, f)
    \/ \E w \in Serial : Finish(w)
    \/ GateTick

SpecGate == InitGate /\ [][NextGate]_vars

(***************************************************************************)
(* Two sessions at a time on the routes of AuthHandlers.                   *)
(***************************************************************************)
SessionRoutes == {r \in Routes : r.handler \in {"ProtectedRoute", "Logout"}}

SessionLogins ==
    {[NoReq EXCEPT !.email = "ann@x.com", !.password = "Secret123"],
     [NoReq EXCEPT !.email = "bob@x.com", !.password = "hunter2"]}

\* The Cookie headers of a session: also one that cannot be parsed, and one
\* whose value is no token.
SessionCookies == Cookies \cup {{Unreadable}, {Garbage}}

NextSessions ==
    \/ \E w \in Workers, b \in SessionLogins : Login(w, b, FALSE)
    \/ \E w \in Workers, r \in SessionRoutes, c \in SessionCookies : AuthMiddleware(w, r, c)
    \/ \E w \in Workers : ProtectedRoute(w)
    \/ \E w \in Workers : Logout(w)
    \/ \E w \in Workers : Finish(w)
    \/ GateTick

SpecSessions == InitGate /\ [][NextSessions]_vars

(***************************************************************************)
(* Two requests at a time on the routes that read and write the directory. *)
(***************************************************************************)
DirectoryRoutes ==
    {r \in Routes : r.handler \in {"GetAllUsers", "CreateUser", "GetUserByID",
                                   "UpdateUser", "DeleteUser", "GetUserByEmail"}}

DirectoryRegisters ==
    {[NoReq EXCEPT !.name = "Zed", !.email = "zed@x.com", !.password = FullPassword],
     [NoReq EXCEPT !.name = "Cy", !.email = "cy@x.com", !.password = "pw3"]}

DirectoryLogins ==
    {[NoReq EXCEPT !.email = "zed@x.com", !.password = p] :
        p \in {FullPassword, LongPassword, "pw3"}}
    \cup {[NoReq EXCEPT !.email = "cy@x.com", !.password = FullPassword]}

DirectoryCreates ==
    {[NoReq EXCEPT !.name = "Cy", !.email = "cy@x.com", !.password = "pw3"]}

DirectoryUpdates ==
    {[NoReq EXCEPT !.name = "Zed", !.email = "zed@x.com", !.password = "newpw"],
     [NoReq EXCEPT !.email = "cy@x.com"]}

NextDirectory ==
    \/ \E w \in Workers, b \in DirectoryRegisters : RegisterLookup(w, b, FALSE)
    \/ \E w \in Workers : RegisterInsert(w, FALSE)
    \/ \E w \in Workers, b \in DirectoryLogins : Login(w, b, FALSE)
    \/ \E w \in Workers, r \in DirectoryRoutes, c \in Cookies : AuthMiddleware(w, r, c)
    \/ \E w \in Workers : GetAllUsers(w, FALSE)
    \/ \E w \in Workers, id \in ItemIds : UserGetByID(w, id, FALSE)
    \/ \E w \in Workers, e \in {"", "zed@x.com"} : UserGetByEmail(w, e, FALSE)
    \/ \E w \in Workers, b \in DirectoryCreates : UserCreateLookup(w, b, FALSE)
    \/ \E w \in Workers : UserCreateInsert(w, FALSE)
    \/ \E w \in Workers, id \in ItemIds, b \in DirectoryUpdates :
          UserUpdateGet(w, id, b, FALSE)
    \/ \E w \in Workers : UserUpdateCheck(w, FALSE)
    \/ \E w \in Workers : UserUpdateExec(w, FALSE)
    \/ \E w \in Workers, id \in ItemIds : UserDeleteGet(w, id, FALSE)
    \/ \E w \in Workers : UserDeleteExec(w, FALSE)
    \/ \E w \in Workers : Finish(w)

SpecDirectory == Init /\ [][NextDirectory]_vars

(***************************************************************************)
(* main: from the environment to ListenAndServe                            *)
(***************************************************************************)
\* The environments the process may be started in.
Envs ==
    [APP_ENV : {"", "development", "production"},
     DATABASE_URL : {"", "postgres://db"},
     JWT_SECRET : {"", "s3cret"}]

\* The process has been started; the database holds the directory of earlier
\* runs.
InitStartup ==
    /\ users = Directory0
    /\ nextID = Cardinality(Directory0)
    /\ now = 0
    /\ pc = [w \in Workers |-> "idle"]
    /\ req = [w \in Workers |-> NoReq]
    /\ ctx = [w \in Workers |-> {}]
    /\ resp = [w \in Workers |-> NoResp]
    /\ issued = {}
    /\ probe = NoProbe
    /\ log = [w \in Workers |-> NoLog]
    /\ proc \in {[phase |-> "start", env |-> e] : e \in Envs}

\* main: APP_ENV picks the logger, an empty DATABASE_URL or a repository that
\* cannot be initialised is fatal, then the routes are registered and the
\* server listens. JWT_SECRET is not read.
main(dbUp) ==
    /\ proc.phase = "start"
    /\ proc' = [proc EXCEPT !.phase = IF proc.env.DATABASE_URL = "" \/ ~dbUp
                                      THEN "exited" ELSE "serving"]
    /\ UNCHANGED <<users, nextID, now, pc, req, ctx, resp, issued, probe, log>>

NextStartup ==
    \/ \E dbUp \in BOOLEAN : main(dbUp)
    \/ \E w \in Serial, b \in SessionLogins : Login(w, b, FALSE)
    \/ \E w \in Serial, r \in SessionRoutes, c \in Cookies : AuthMiddleware(w, r, c)
    \/ \E w \in Serial : ProtectedRoute(w)
    \/ \E w \in Serial : Logout(w)
    \/ \E w \in Serial : Finish(w)

SpecStartup == InitStartup /\ [][NextStartup]_vars

(***************************************************************************)
(* Login and the session gate: the properties checked under SpecLogin,     *)
(* SpecGate and SpecSessions.                                              *)
(***************************************************************************)
\* A finished AuthenticateUser call with a non-empty email and password whose
\* lookup was answered.
LoginDone(w) ==
    /\ pc[w] = "done" /\ req[w].op = "POST /login" /\ ~req[w].malformed
    /\ req[w].email # "" /\ req[w].password # "" /\ ~log[w].fault

UnknownEmail(w) == log[w].found = {}

WrongPassword(w) == \E u \in log[w].found : ~CheckPassword(u, req[w].password)

\* C4: a login with an email no identity has and a login with the email of an
\* identity but a password that does not verify get the same response: 401,
\* "service: invalid credentials", no token, no cookie.
C4_SameOutcome ==
    \A w \in Workers :
        (LoginDone(w) /\ (UnknownEmail(w) \/ WrongPassword(w))) =>
            /\ resp[w] = HttpError("service: invalid credentials", 401)
            /\ resp[w].cookie = {} /\ resp[w].body.token = {}
            /\ \A v \in Workers :
                  (LoginDone(v) /\ (UnknownEmail(v) \/ WrongPassword(v))) =>
                      resp[v] = resp[w]

\* C4 witness: the two cases side by side.
C4_Witness ==
    \E w \in Workers, v \in Workers :
        /\ LoginDone(w) /\ UnknownEmail(w)
        /\ LoginDone(v) /\ WrongPassword(v)
        /\ resp[w].status = 401 /\ resp[v].status = 401

\* The patterns main registers behind AuthMiddleware.
GatedPatterns == {r.pattern : r \in {x \in Routes : x.gated}}

\* The wrapped handler of request w was invoked.
Admitted(w) == log[w].ran \/ pc[w] \notin {"idle", "done"}

\* ParseJWT accepted the cookie of request w when it reached the gate.
Accepts(w) ==
    /\ req[w].cookie # {}
    /\ \A tok \in req[w].cookie : ParseJWT(tok, log[w].at).errs = {}

\* C8: /protected, /logout and every /users route are behind the gate; the
\* handler of a request to a gated route is invoked if and only if the
\* request carries a jwt_token cookie that ParseJWT accepts at that time;
\* otherwise the request is answered 401 and stays without subject; an
\* admitted request keeps its subject.
C8_SessionGate ==
    /\ {"GET /protected", "POST /logout", "GET /users", "POST /users",
        "GET /users/{id}", "PUT /users/{id}", "DELETE /users/{id}",
        "GET /users/by-email"} \subseteq GatedPatterns
    /\ \A w \in Workers :
          req[w].op \in GatedPatterns =>
              /\ Admitted(w) <=> Accepts(w)
              /\ ~Accepts(w) =>
                    pc[w] = "done" /\ resp[w].status = 401 /\ ctx[w] = {}
              /\ Accepts(w) => ctx[w] # {}

\* C8 witness: a request to a /users route with an expired token is answered 401.
C8_Witness ==
    \E w \in Workers, g \in issued :
        /\ req[w].op = "DELETE /users/{id}"
        /\ req[w].cookie = {g.tok}
        /\ log[w].at >= ExpiryOf(g)
        /\ pc[w] = "done" /\ resp[w].status = 401 /\ ~log[w].ran

\* C9: the handler of an admitted request runs with the UserID claim of the
\* request's own cookie under UserContextKey, and ProtectedRoute answers with
\* that id.
C9_SubjectInContext ==
    \A w \in Workers :
        (req[w].op \in GatedPatterns /\ Admitted(w)) =>
            /\ ctx[w] # {}
            /\ ctx[w] = {tok.claims.user_id : tok \in req[w].cookie}
            /\ (pc[w] = "done" /\ req[w].op = "GET /protected") =>
                  resp[w].status = 200 /\ resp[w].body.subject = ctx[w]

\* C9 witness: two requests in flight, each answered with its own subject.
C9_Witness ==
    \E w \in Workers, v \in Workers :
        /\ pc[w] = "done" /\ req[w].op = "GET /protected" /\ resp[w].status = 200
        /\ pc[v] = "done" /\ req[v].op = "GET /protected" /\ resp[v].status = 200
        /\ resp[w].body.subject # resp[v].body.subject

\* A request to a gated route that carries the token of grant g is admitted
\* before the token's expiry and answered 401 from then on.
UntilExpiry ==
    \A w \in Workers, g \in issued :
        (req[w].op \in GatedPatterns /\ req[w].cookie = {g.tok}) =>
            /\ log[w].at < ExpiryOf(g) => Admitted(w)
            /\ log[w].at >= ExpiryOf(g) =>
                  ~Admitted(w) /\ pc[w] = "done" /\ resp[w].status = 401

\* The step of a request through the gate leaves the directory as it is.
GateFrame ==
    \A w \in Workers :
        (pc[w] = "idle" /\ pc'[w] # "idle" /\ req'[w].op \in GatedPatterns) =>
            users' = users /\ nextID' = nextID

\* C10: the gate does not touch the directory, and a token a login issued is
\* accepted at every time before its expiry, whatever became of its subject
\* since (deleted, renamed, new email, new password), and rejected from its
\* expiry on.
C10_Stateless == []UntilExpiry /\ [][GateFrame]_vars

\* C10 witness: a request is admitted with the token of a subject the
\* directory no longer holds.
C10_Witness ==
    \E w \in Workers, g \in issued :
        /\ req[w].op \in GatedPatterns
        /\ req[w].cookie = {g.tok}
        /\ log[w].subject = {}
        /\ log[w].ran

(***************************************************************************)
(* Registration and login together, from an empty directory.               *)
(***************************************************************************)
AuthRegisters ==
    {[NoReq EXCEPT !.name = n, !.email = e, !.password = p] :
        n \in {"", "Ann"}, e \in {"", "ann@x.com", "bob@x.com"},
        p \in {"", "Secret123", LongPassword}}
    \cup {[NoReq EXCEPT !.malformed = TRUE]}

AuthLogins ==
    {[NoReq EXCEPT !.email = e, !.password = p] :
        e \in {"", "ann@x.com", "bob@x.com"}, p \in {"", "Secret123", "hunter2"}}
    \cup {[NoReq EXCEPT !.malformed = TRUE]}

NextAuth ==
    \/ \E w \in Workers, b \in AuthRegisters, f \in BOOLEAN : RegisterLookup(w, b, f)
    \/ \E w \in Workers, f \in BOOLEAN : RegisterInsert(w, f)
    \/ \E w \in Workers, b \in AuthLogins, f \in BOOLEAN : Login(w, b, f)
    \/ \E w \in Workers : Finish(w)

SpecAuth == Init /\ [][NextAuth]_vars

\* A finished call of RegisterUser / of AuthenticateUser (the body was decoded).
Registered(w) == pc[w] = "done" /\ req[w].op = "register" /\ ~req[w].malformed

LoggedIn(w) == pc[w] = "done" /\ req[w].op = "POST /login" /\ ~req[w].malformed

\* The request of w lacks a field RegisterUser / AuthenticateUser requires.
RegisterIncomplete(r) == r.name = "" \/ r.email = "" \/ r.password = ""

LoginIncomplete(r) == r.email = "" \/ r.password = ""

\* A call with a missing field is answered 400 with the validation message; it
\* saw nothing of the directory, wrote nothing and got no token.
ValidationFirst ==
    \A w \in Workers :
        /\ (Registered(w) /\ RegisterIncomplete(req[w])) =>
              /\ resp[w] = HttpError("service: name, email, and password are required", 400)
              /\ log[w].found = {} /\ ~log[w].fault /\ log[w].wrote = 0
        /\ (LoggedIn(w) /\ LoginIncomplete(req[w])) =>
              /\ resp[w] = HttpError("service: email and password are required", 400)
              /\ log[w].found = {} /\ ~log[w].fault

\* The step of a call with a missing field changes neither directory nor tokens.
ValidationFrame ==
    \A w \in Workers :
        (/\ pc[w] = "idle" /\ pc'[w] = "done" /\ ~req'[w].malformed
         /\ \/ req'[w].op = "register" /\ RegisterIncomplete(req'[w])
            \/ req'[w].op = "POST /login" /\ LoginIncomplete(req'[w])) =>
            users' = users /\ nextID' = nextID /\ issued' = issued

\* C11: RegisterUser with an empty name, email or password and AuthenticateUser
\* with an empty email or password fail with their validation message and 400
\* whatever the directory holds or answers: the directory is neither read nor
\* written and no token is issued.
C11_ValidationFirst == []ValidationFirst /\ [][ValidationFrame]_vars

\* C11 witness: a registration without a name for an email the directory
\* holds is answered 400.
C11_Witness ==
    \E w \in Workers :
        /\ Registered(w) /\ req[w].name = "" /\ req[w].email # ""
        /\ log[w].held
        /\ resp[w].status = 400

RegisterWrites ==
    \A w \in Workers :
        (req'[w].op = "register" /\ pc'[w] # pc[w]) =>
            IF pc[w] = "reg_insert" /\ resp'[w].status = 201
            THEN \E u \in users' \ users :
                    /\ users' = users \cup {u}
                    /\ resp'[w].body.user = {ToUserResponse(u)}
            ELSE users' = users

\* A finished RegisterUser call inserted one row if it succeeded, none if not.
RegisterWroteOnce ==
    \A w \in Workers :
        Registered(w) => log[w].wrote = IF resp[w].status = 201 THEN 1 ELSE 0

\* C13: a RegisterUser call writes the directory exactly once, by its insert,
\* when it succeeds, and not at all when it fails (validation, existing email,
\* lookup error, hashing error); it never writes more than once.
C13_OneWrite == []RegisterWroteOnce /\ [][RegisterWrites]_vars

\* C13 witness: a registration whose password cannot be hashed has failed
\* without a write.
C13_Witness ==
    \E w \in Workers :
        /\ Registered(w) /\ req[w].password = LongPassword
        /\ ~RegisterIncomplete(req[w])
        /\ resp[w].status = 500 /\ log[w].wrote = 0

\* A login step leaves the directory and the id source as they were.
LoginReadOnly ==
    \A w \in Workers :
        (pc[w] = "idle" /\ pc'[w] = "done" /\ req'[w].op = "POST /login") =>
            /\ users' = users
            /\ nextID' = nextID

\* C14: AuthenticateUser only reads the directory, whatever its outcome, and
\* the server keeps no record of the token or session it grants: the directory
\* is all the state the service stores, and a login leaves it untouched.
C14_LoginReadOnly == [][LoginReadOnly]_vars

\* C14 witness: a login has succeeded against a stored identity.
C14_Witness ==
    \E w \in Workers :
        /\ LoggedIn(w) /\ resp[w].status = 200
        /\ log[w].found # {} /\ log[w].found \subseteq users
        /\ resp[w].body.token # {}

\* The plaintext passwords the service has been sent or has stored a hash of.
Plaintexts ==
    ({req[w].password : w \in Workers} \cup {u.password_hash.pw : u \in users}) \ {""}

\* The fields of an identity sent outward.
OutwardFields == {"id", "name", "email", "created_at"}

\* C15: no response of Register, Login or a user-management endpoint (create,
\* get by id, get by email, list, update) carries a password hash or a
\* plaintext password: every identity in a response has exactly the fields
\* id, name, email and created-at, and neither a text nor a token's claims
\* holds a password.
C15_PasswordSecrecy ==
    \A w \in Workers :
        /\ \A x \in resp[w].body.user :
              /\ DOMAIN x = OutwardFields
              /\ x.name \notin Plaintexts /\ x.email \notin Plaintexts
        /\ resp[w].body.text \notin Plaintexts
        /\ \A tok \in resp[w].body.token \cup UNION {c.value : c \in resp[w].cookie} :
              /\ DOMAIN tok.claims = DOMAIN NoClaims
              /\ tok.claims.username \notin Plaintexts

\* C15 witness: the list of identities has been sent while a registration that
\* stored a hash is answered.
C15_Witness ==
    \E w \in Workers, v \in Workers :
        /\ Registered(w) /\ resp[w].status = 201
        /\ pc[v] = "done" /\ req[v].op = "GET /users" /\ resp[v].status = 200
        /\ \E x \in resp[v].body.user, u \in users :
              x.id = u.id /\ u.password_hash.pw \in Plaintexts

\* The process was started for production without a signing key.
ProductionWithoutKey ==
    proc.env.APP_ENV = "production" /\ proc.env.JWT_SECRET = ""

\* C16: started for production with JWT_SECRET unset or empty, the process
\* ends before it serves, and no token is signed or accepted with the key
\* written in the source.
C16_FailFast ==
    ProductionWithoutKey =>
        /\ proc.phase # "serving"
        /\ \A g \in issued : g.tok.sig.key # jwtSecret
        /\ \A w \in Workers : ctx[w] = {}

\* What a finished registration or login shows: all of its effect or none.
AllOrNothing ==
    \A w \in Workers :
        /\ (Registered(w) /\ resp[w].status # 201) =>
              /\ log[w].wrote = 0
              /\ resp[w].body.user = {}
        /\ (Registered(w) /\ resp[w].status = 201) =>
              /\ resp[w].body.user # {}
              /\ \A x \in resp[w].body.user : \E u \in users : ToUserResponse(u) = x
        /\ (LoggedIn(w) /\ resp[w].status # 200) =>
              /\ resp[w].cookie = {}
              /\ resp[w].body.token = {}
        /\ (LoggedIn(w) /\ resp[w].status = 200) =>
              \E tok \in resp[w].body.token :
                  /\ resp[w].body.token = {tok}
                  /\ Cardinality(resp[w].cookie) = 1
                  /\ \A c \in resp[w].cookie : c.name = "jwt_token" /\ c.value = {tok}

\* The step that ends a registration in an error leaves the directory as it was.
FailedRegisterFrame ==
    \A w \in Workers :
        (pc[w] # "done" /\ pc'[w] = "done" /\ req'[w].op = "register"
            /\ resp'[w].status # 201) => users' = users

\* C17: no partial success. A RegisterUser that returns an error has created
\* no identity and a Login that returns an error sets no cookie and returns no
\* token; a Register answered 201 has its identity in the directory and a
\* Login answered 200 carries one token, the same in the cookie and the body.
C17_NoPartialSuccess == []AllOrNothing /\ [][FailedRegisterFrame]_vars

\* C17 witness: a registration has lost the race for its email at the insert
\* while a login is refused.
C17_Witness ==
    \E w \in Workers, v \in Workers :
        /\ Registered(w) /\ resp[w].status = 500 /\ log[w].rejected
        /\ LoggedIn(v) /\ resp[v].status = 401
        /\ \E u \in users : u.email = req[w].email

\* C18: email uniqueness. In every state reached by RegisterUser, CreateUser,
\* UpdateUser and DeleteUser calls, in any order and interleaving, no two
\* identities of the directory have the same email, and no two the same id.
C18_EmailUnique ==
    \A u \in users, v \in users :
        (u.email = v.email \/ u.id = v.id) => u = v

\* C18 witness: an UpdateUser that passed the service's check of the new email
\* has been refused by the table, another identity having taken the email
\* meanwhile.
C18_Witness ==
    \E w \in Workers :
        /\ pc[w] = "done" /\ req[w].op = "PUT /users/{id}"
        /\ log[w].rejected /\ resp[w].status = 500
        /\ \E u \in users, v \in users :
              u.id = req[w].id /\ v.id # u.id /\ v.email = req[w].email

\* The registration that is answered 201 stores an identity under its email
\* whose hash verifies its password.
RegisterStores ==
    \A w \in Workers :
        (pc[w] = "reg_insert" /\ pc'[w] = "done" /\ resp'[w].status = 201) =>
            \E u \in users' \ users :
                /\ u.email = req[w].email
                /\ CheckPassword(u, req[w].password)

\* An identity's row changes or goes only by the UPDATE of UpdateUser or the
\* DELETE of DeleteUser.
CredentialFrame ==
    (\E u \in users : u \notin users') =>
        \E w \in Workers :
            pc[w] \in {"UpdateUser_exec", "DeleteUser_exec"} /\ pc'[w] = "done"

\* A login that reached the directory is answered by the identity stored under
\* its email: 200 when the password offered has the 72-byte key of the one
\* stored, 401 invalid credentials otherwise.
LoginMatchesStored ==
    \A w \in Workers :
        (LoggedIn(w) /\ ~LoginIncomplete(req[w]) /\ ~log[w].fault) =>
            /\ log[w].held => log[w].found # {}
            /\ IF \E u \in log[w].found : u.password_hash.pw = BcryptKey(req[w].password)
               THEN resp[w].status = 200
               ELSE /\ resp[w].status = 401
                    /\ resp[w].body.text = "service: invalid credentials"

ClearingCookie == [name |-> "jwt_token", value |-> {}, expires |-> 0]

\* C20: every answer to POST /logout clears the session cookie (jwt_token set
\* to the empty value with an expiry in the past): 200 for an authenticated
\* caller, and 401 for a caller without a cookie or with an invalid or expired
\* token, whose response still clears the cookie.
C20_LogoutClears ==
    \A w \in Workers :
        (pc[w] = "done" /\ req[w].op = "POST /logout") =>
            /\ resp[w].status = IF Accepts(w) THEN 200 ELSE 401
            /\ resp[w].cookie = {ClearingCookie}

\* The status and text a finished POST /register must carry, by the kind of
\* its failure.
RegisterKind(w) ==
    IF req[w].malformed THEN <<400, "Invalid request payload">>
    ELSE IF RegisterIncomplete(req[w])
         THEN <<400, "service: name, email, and password are required">>
         ELSE IF log[w].found # {}
              THEN <<409, "service: user with this email already exists">>
              ELSE IF log[w].fault \/ log[w].rejected \/ req[w].password = LongPassword
                   THEN <<500, "Failed to register user">>
                   ELSE <<201, "">>

\* The status and text a finished POST /login must carry.
LoginKind(w) ==
    IF req[w].malformed THEN <<400, "Invalid request payload">>
    ELSE IF LoginIncomplete(req[w])
         THEN <<400, "service: email and password are required">>
         ELSE IF log[w].fault THEN <<500, "Failed to authenticate">>
              ELSE IF \E u \in log[w].found :
                         u.password_hash.pw = BcryptKey(req[w].password)
                   THEN <<200, "">>
                   ELSE <<401, "service: invalid credentials">>

\* C21: Register and Login answer a validation error 400, an existing email
\* 409, invalid credentials 401, and every other failure (lookup or insert
\* error, hashing error) 500 with the fixed message of the handler: the body
\* of a 500 is that message and nothing of the error underneath.
C21_StatusByKind ==
    \A w \in Workers :
        /\ (pc[w] = "done" /\ req[w].op = "register") =>
              <<resp[w].status, resp[w].body.text>> = RegisterKind(w)
        /\ (pc[w] = "done" /\ req[w].op = "POST /login") =>
              <<resp[w].status, resp[w].body.text>> = LoginKind(w)

\* C21 witness: a registration whose insert failed in the database and a login
\* whose lookup failed are both answered.
C21_Witness ==
    \E w \in Workers, v \in Workers :
        /\ Registered(w) /\ ~RegisterIncomplete(req[w]) /\ log[w].found = {}
        /\ log[w].fault /\ resp[w].status = 500
        /\ LoggedIn(v) /\ log[v].fault /\ resp[v].status = 500

\* C22: DeleteUser reports success (204) only when this call removed an
\* identity with that id from the directory, and answers 404 without a change
\* for an id the directory does not hold; so of two DeleteUser calls for the
\* same id at most one reports success.
C22_DeleteOnce ==
    /\ \A w \in Workers :
          (pc[w] = "done" /\ req[w].op = "DELETE /users/{id}" /\ log[w].ran) =>
              /\ resp[w].status = 204 => log[w].wrote = 1
              /\ resp[w].status = 404 => log[w].wrote = 0
    /\ \A w \in Workers, v \in Workers :
          (/\ w # v
           /\ pc[w] = "done" /\ req[w].op = "DELETE /users/{id}"
           /\ pc[v] = "done" /\ req[v].op = "DELETE /users/{id}"
           /\ req[w].id = req[v].id)
          => ~(resp[w].status = 204 /\ resp[v].status = 204)

\* The write of an UpdateUser without a password leaves every stored hash as
\* it was.
HashKept ==
    \A w \in Workers :
        (pc[w] = "UpdateUser_exec" /\ pc'[w] = "done" /\ req[w].password = "") =>
            \A u \in users, v \in users' :
                u.id = v.id => v.password_hash = u.password_hash

\* C23: the stored hash of an identity changes only through a password
\* change: an UpdateUser without a password leaves the hash as the most recent
\* password change or registration set it, in every interleaving; a completed
\* password change is never reverted by a concurrent name or email update.
C23_HashOnlyByPasswordChange == [][HashKept]_vars

\* The write of an UpdateUser and what it then reports.
UpdateReported ==
    \A w \in Workers :
        (pc[w] = "UpdateUser_exec" /\ pc'[w] = "done") =>
            IF \E u \in users : u.id = req[w].id
            THEN resp'[w].status = 200 =>
                    \A x \in resp'[w].body.user :
                        \E u \in users' :
                            u.id = x.id /\ u.name = x.name /\ u.email = x.email
            ELSE resp'[w].status = 404

\* C24: UpdateUser reports success (200 with the updated identity) only if the
\* directory holds an identity with that id, name and email when its write
\* completes; when no identity with that id exists at the time of the write
\* (a concurrent DeleteUser removed it after UpdateUser's read) it reports
\* not-found (404).
C24_UpdateReportsTheWrite == [][UpdateReported]_vars

\* C25: every token built by GenerateJWT has expires-at > issued-at, with
\* issued-at = not-before = the issuance time and expires-at = issuance time
\* + ttl, at one-second precision; so for a lifetime of whole seconds, the 900
\* seconds of a login among them, expires-at - issued-at is exactly the
\* lifetime, and not-before is not later than the time the token is validated.
C25_ClaimsOfOneInstant ==
    \A g \in issued :
        (g.ttl >= TicksPerSec /\ g.ttl % TicksPerSec = 0) =>
            /\ g.tok.claims.exp > g.tok.claims.iat
            /\ g.tok.claims.nbf = g.tok.claims.iat
            /\ g.tok.claims.exp - g.tok.claims.iat = g.ttl \div TicksPerSec
            /\ DateTicks(g.tok.claims.nbf) <= now

\* C26: the session gate answers 400 Bad Request, without invoking the wrapped
\* handler, when the jwt_token value is present but malformed; an absent
\* cookie is answered 401, and so is a well-formed cookie whose token fails
\* validation.
C26_MalformedIsBadRequest ==
    \A w \in Workers :
        (pc[w] = "done" /\ req[w].op \in GatedPatterns /\ ~log[w].ran) =>
            resp[w].status =
                IF req[w].cookie = {} THEN 401
                ELSE IF Unreadable \in req[w].cookie THEN 400
                     ELSE 401

\* C27: hashing never fails because of the password's content: a RegisterUser
\* with a non-empty name, a fresh email and a non-empty password of any length
\* does not fail with an internal error unless the directory does.
C27_HashingTotal ==
    \A w \in Workers :
        (/\ Registered(w) /\ ~RegisterIncomplete(req[w])
         /\ log[w].found = {} /\ ~log[w].fault /\ ~log[w].rejected)
        => resp[w].status = 201

\* Request w has been answered by Logout.
LoggedOut(w) ==
    pc[w] = "done" /\ req[w].op = "POST /logout" /\ resp[w].status = 200

\* A request that comes to the gate with the token a logout has already been
\* answered for, before that token's expiry, is admitted with its subject.
StillAccepted ==
    \A v \in Workers, w \in Workers :
        (/\ LoggedOut(w)
         /\ pc[v] = "idle" /\ pc'[v] # "idle" /\ req'[v].op \in GatedPatterns
         /\ req'[v].cookie = req[w].cookie
         /\ \A tok \in req[w].cookie : now < DateTicks(tok.claims.exp))
        => /\ pc'[v] # "done"
           /\ ctx'[v] = {tok.claims.user_id : tok \in req[w].cookie}

\* Logout writes the clearing cookie and leaves the directory and the tokens
\* in circulation as they are.
LogoutFrame ==
    \A w \in Workers :
        (pc[w] = "Logout" /\ pc'[w] = "done") =>
            /\ users' = users /\ nextID' = nextID /\ issued' = issued
            /\ resp'[w].cookie = {[name |-> "jwt_token", value |-> {}, expires |-> 0]}

\* C28: logout does not revoke the token. After a successful POST /logout a
\* request presenting the same token again is accepted by AuthMiddleware at
\* every time before the token's expiry; logout changes the client's cookie
\* and no state of the server.
C28_LogoutDoesNotRevoke == [][StillAccepted /\ LogoutFrame]_vars

\* C28 witness: with a logout answered, a later request carrying the same
\* token has passed the gate.
C28_Witness ==
    \E v \in Workers, w \in Workers :
        /\ LoggedOut(w)
        /\ pc[v] = "ProtectedRoute" /\ req[v].cookie = req[w].cookie
        /\ log[v].at > log[w].at
        /\ ctx[v] # {}

\* Request w is an UpdateUser with a new password that has been answered 200.
PasswordChanged(w) ==
    /\ pc[w] = "done" /\ req[w].op = "PUT /users/{id}"
    /\ resp[w].status = 200 /\ req[w].password # ""

\* Request w is a DeleteUser that has been answered 204.
Deleted(w) ==
    pc[w] = "done" /\ req[w].op = "DELETE /users/{id}" /\ resp[w].status = 204

\* A login made after a password change was answered, with the email the
\* identity has, succeeds with the new password and with no other; a login
\* made after a delete was answered, with the email of the identity deleted,
\* fails while no identity holds that email.
LoginAfterChange ==
    \A v \in Workers, w \in Workers :
        (pc[v] = "idle" /\ pc'[v] = "done" /\ req'[v].op = "POST /login"
            /\ ~LoginIncomplete(req'[v])) =>
            /\ (/\ PasswordChanged(w)
                /\ \E u \in users : u.id = req[w].id /\ u.email = req'[v].email)
               => resp'[v].status =
                      IF BcryptKey(req'[v].password) = BcryptKey(req[w].password)
                      THEN 200 ELSE 401
            /\ (/\ Deleted(w)
                /\ \E u \in log[w].found : u.email = req'[v].email
                /\ ~\E u \in users : u.email = req'[v].email)
               => resp'[v].status = 401

\* C29: a password change takes effect for login. After UpdateUser(id,
\* password = p2) has succeeded on an identity with email e and password p1,
\* a later AuthenticateUser(e, p1) fails with invalid credentials and
\* AuthenticateUser(e, p2) succeeds; after DeleteUser(id) has succeeded,
\* AuthenticateUser(e, any password) fails until e is registered again.
C29_PasswordChangeTakesEffect == [][LoginAfterChange]_vars

\* C30: authenticity of the authenticated context. With the signing key known
\* to the server only, a wrapped handler runs with subject id u, admitted at
\* time t, only if a login succeeded for the identity with id u at some t0
\* with t0 <= t < t0 + 15 minutes; never for a subject without such a login,
\* an identity that is in the directory but never logged in among them.
C30_Authentic ==
    \A w \in Workers :
        (req[w].op \in GatedPatterns /\ Admitted(w)) =>
            /\ ctx[w] # {}
            /\ \A u \in ctx[w] :
                  \E g \in issued :
                      /\ g.tok.claims.user_id = u
                      /\ g.ttl = 15 * 60 * TicksPerSec
                      /\ g.t0 <= log[w].at
                      /\ log[w].at < g.t0 + g.ttl

\* C30 witness: in the last tick of a token's lifetime a handler has run with
\* the subject of that login, while the other identity of the directory has
\* never logged in.
C30_Witness ==
    \E w \in Workers :
        /\ req[w].op \in GatedPatterns /\ log[w].ran /\ pc[w] = "done"
        /\ log[w].at >= Jump
        /\ ctx[w] # {}
        /\ \E u \in users : \A g \in issued : g.tok.claims.user_id # u.id

====
